---- MODULE Spec2Model ----
(***************************************************************************)
(* A model of ir_collect.py, the incident response collection tool: the    *)
(* file hasher (hash_files), the tabular writer (write_csv), the uploader  *)
(* (upload_to_s3) and the orchestrator (main).                             *)
(*                                                                         *)
(* Paths, command line words and printed lines are sequences of strings;   *)
(* a dict is the sequence of its <<key, value>> pairs in insertion order.  *)
(***************************************************************************)
EXTENDS Integers, Sequences, FiniteSets, TLC

VARIABLES
    fs,            \* the file system under the hash targets: path -> node
    scandirOrder,  \* the order in which the platform lists directory entries
    targets,       \* hash_files: the targets parameter
    ti,            \* hash_files: index of the next target of the outer loop
    walking,       \* hash_files: TRUE while inside the os.walk loops of a target
    queue,         \* hash_files: files os.walk still has to yield for the target
    hashes,        \* hash_files: the hashes list; write_csv: the rows parameter
    log_entries,   \* the log sink
    caller,        \* "main" when the function runs inside main, else "direct"
    pc,            \* position in the program
    exc,           \* the exception that left the function or the process, or "none"
    csv_out,       \* lines of hashes.csv written so far
    argv,          \* the command line words after the script name
    args,          \* the argparse namespace
    disk,          \* files and directories that exist below output/
    zip_members,   \* names stored in the ZIP archive
    console,       \* lines printed to standard output
    events,        \* stages of main in the order they ran
    exitCode,      \* the exit status of the process, -1 while running
    outputWritable,\* whether os.makedirs can create the session directory
    s3Env          \* what the S3 client library does in this environment

vars == <<fs, scandirOrder, targets, ti, walking, queue, hashes, log_entries, caller, pc,
          exc, csv_out, argv, args, disk, zip_members, console, events, exitCode,
          outputWritable, s3Env>>

----------------------------------------------------------------------------
(* Bounds *)

\* longest file content, in bytes
MaxLen == 3
\* most targets in one hash_files call
MaxTargets == 2
\* most rows in one direct write_csv call
MaxRows == 3
\* bytes read per f.read call (65536 in the source, scaled to the contents)
ChunkSize == 2

----------------------------------------------------------------------------
(* Sequences *)

RECURSIVE Concat(_)
Concat(ss) == IF ss = <<>> THEN <<>> ELSE Head(ss) \o Concat(Tail(ss))

RECURSIVE SelectIn(_, _)
\* the elements of s that are in S, in the order of s
SelectIn(s, S) ==
    IF s = <<>> THEN <<>>
    ELSE IF Head(s) \in S THEN <<Head(s)>> \o SelectIn(Tail(s), S)
         ELSE SelectIn(Tail(s), S)

Range(s) == {s[i] : i \in 1..Len(s)}

----------------------------------------------------------------------------
(* The file system *)

Paths == { <<"t">>, <<"t", "a">>, <<"t", "a", "c">>, <<"t", "b">>, <<"u">> }

\* a file's bytes: a prefix of one fixed byte string
Bytes == <<104, 101, 108, 108, 111>>
Contents == {SubSeq(Bytes, 1, n) : n \in 0..MaxLen}

Missing == [kind |-> "missing", content |-> <<>>, err |-> "none"]

\* err of a file: the error open() or read() raises; err of a directory:
\* the error scandir raises
Nodes ==
    {Missing}
    \cup [kind : {"file"}, content : Contents, err : {"none"}]
    \cup [kind : {"file"}, content : {<<>>}, err : {"PermissionError", "OSError"}]
    \cup [kind : {"dir"}, content : {<<>>}, err : {"none", "PermissionError"}]

Parent(p) == SubSeq(p, 1, Len(p) - 1)

Children(p) == {q \in Paths : Len(q) = Len(p) + 1 /\ Parent(q) = p}

\* what exists lies in a directory that exists
WellFormed(f) ==
    \A p \in Paths :
        (Len(p) > 1 /\ f[p].kind # "missing") => f[Parent(p)].kind = "dir"

FileSystems == {f \in [Paths -> Nodes] : WellFormed(f)}

\* os.path.exists
Exists(p) == p \in DOMAIN fs /\ fs[p].kind # "missing"

\* os.path.join(root, fname)
Join(root, fname) == Append(root, fname)

\* os.scandir(top): the names of the entries of top, in platform order
ScanDir(top) ==
    SelectIn(scandirOrder, {q[Len(q)] : q \in {c \in Children(top) : Exists(c)}})

\* Walk without the descent into subdirectories
WalkTopOnly(top) ==
    IF ~Exists(top) \/ fs[top].kind # "dir" \/ fs[top].err # "none" THEN <<>>
    ELSE LET names == ScanDir(top)
             files == SelectIn(names, {n \in Range(names) :
                                          fs[Join(top, n)].kind # "dir"})
         IN  [i \in 1..Len(files) |-> Join(top, files[i])]

RECURSIVE Walk(_)
\* os.walk(top) flattened to the paths the two loops of hash_files visit:
\* for each directory, top down, its non-directory entries; an error of
\* scandir (top is a file, or unreadable) is ignored and yields nothing
Walk(top) ==
    IF ~Exists(top) \/ fs[top].kind # "dir" \/ fs[top].err # "none" THEN <<>>
    ELSE LET names == ScanDir(top)
             IsDir(n) == fs[Join(top, n)].kind = "dir"
             files == SelectIn(names, {n \in Range(names) : ~IsDir(n)})
             dirs  == SelectIn(names, {n \in Range(names) : IsDir(n)})
         IN  [i \in 1..Len(files) |-> Join(top, files[i])]
             \o Concat([i \in 1..Len(dirs) |-> Walk(Join(top, dirs[i]))])

----------------------------------------------------------------------------
(* SHA-256, as a running accumulator over bytes with a hex rendering *)

HashMod == 256

HashInit == 7

RECURSIVE Sha256Update(_, _)
\* sha256.update(chunk)
Sha256Update(h, chunk) ==
    IF chunk = <<>> THEN h
    ELSE Sha256Update((h * 31 + Head(chunk)) % HashMod, Tail(chunk))

HexDigits == <<"0", "1", "2", "3", "4", "5", "6", "7",
               "8", "9", "a", "b", "c", "d", "e", "f">>

\* sha256.hexdigest(): lowercase hex, most significant digit first
HexDigest(h) == <<HexDigits[(h \div 16) + 1], HexDigits[(h % 16) + 1]>>

\* f.read(65536) at offset pos
Read(content, pos) ==
    SubSeq(content, pos + 1, IF pos + ChunkSize < Len(content)
                             THEN pos + ChunkSize ELSE Len(content))

RECURSIVE StreamHash(_, _, _)
\* for chunk in iter(lambda: f.read(65536), b''): sha256.update(chunk)
StreamHash(content, pos, h) ==
    LET chunk == Read(content, pos)
    IN  IF chunk = <<>> THEN h
        ELSE StreamHash(content, pos + Len(chunk), Sha256Update(h, chunk))

\* the digest of a file's whole content, computed in one piece
Sha256Hex(content) == HexDigest(Sha256Update(HashInit, content))

----------------------------------------------------------------------------
(* hash_files *)

\* {'file': path, 'sha256': digest}
HashRecord(path, digest) == << <<"file", path>>, <<"sha256", digest>> >>

\* f"Target path not found: {target}"
MissingEntry(target) == <<"Target path not found: ", target>>

\* f"Failed to hash {path}: {e}"
FailEntry(path, e) == <<"Failed to hash ", path, ": ", e>>

\* where control goes when hash_files returns
AfterHash == IF caller = "main" THEN "write_system_info" ELSE "returned"

hashVars == <<targets, ti, walking, queue, hashes, log_entries>>
envVars == <<fs, scandirOrder, outputWritable, s3Env, argv>>
mainVars == <<args, disk, zip_members, console, events, exitCode, csv_out, exc>>

\* HashTargetMissing with break in place of continue
HashTargetMissingBreaks ==
    /\ pc = "hash" /\ ~walking /\ ti <= Len(targets)
    /\ ~Exists(targets[ti])
    /\ log_entries' = Append(log_entries, MissingEntry(targets[ti]))
    /\ ti' = Len(targets) + 1
    /\ UNCHANGED <<targets, walking, queue, hashes, caller, pc>>
    /\ UNCHANGED <<envVars, mainVars>>

\* a target that does not exist: log it and go on to the next target
HashTargetMissing ==
    /\ pc = "hash" /\ ~walking /\ ti <= Len(targets)
    /\ ~Exists(targets[ti])
    /\ log_entries' = Append(log_entries, MissingEntry(targets[ti]))
    /\ ti' = ti + 1
    /\ UNCHANGED <<targets, walking, queue, hashes, caller, pc>>
    /\ UNCHANGED <<envVars, mainVars>>

\* a target that exists: start os.walk on it
HashTargetWalk ==
    /\ pc = "hash" /\ ~walking /\ ti <= Len(targets)
    /\ Exists(targets[ti])
    /\ walking' = TRUE
    /\ queue' = Walk(targets[ti])
    /\ UNCHANGED <<targets, ti, hashes, log_entries, caller, pc>>
    /\ UNCHANGED <<envVars, mainVars>>

\* the next file of the walk is opened, read to its end and recorded
HashFileOk ==
    /\ pc = "hash" /\ walking /\ queue # <<>>
    /\ LET path == Head(queue)
       IN  /\ fs[path].err = "none"
           /\ hashes' = Append(hashes,
                 HashRecord(path, HexDigest(StreamHash(fs[path].content, 0, HashInit))))
    /\ queue' = Tail(queue)
    /\ UNCHANGED <<targets, ti, walking, log_entries, caller, pc>>
    /\ UNCHANGED <<envVars, mainVars>>

\* HashFileFail with the try around the loops: the error ends the walk
HashFileFailEndsWalk ==
    /\ pc = "hash" /\ walking /\ queue # <<>>
    /\ LET path == Head(queue)
       IN  /\ fs[path].err # "none"
           /\ log_entries' = Append(log_entries, FailEntry(path, fs[path].err))
    /\ queue' = <<>>
    /\ UNCHANGED <<targets, ti, walking, hashes, caller, pc>>
    /\ UNCHANGED <<envVars, mainVars>>

\* the next file of the walk raises PermissionError or OSError: log it
HashFileFail ==
    /\ pc = "hash" /\ walking /\ queue # <<>>
    /\ LET path == Head(queue)
       IN  /\ fs[path].err # "none"
           /\ log_entries' = Append(log_entries, FailEntry(path, fs[path].err))
    /\ queue' = Tail(queue)
    /\ UNCHANGED <<targets, ti, walking, hashes, caller, pc>>
    /\ UNCHANGED <<envVars, mainVars>>

\* os.walk is exhausted: on to the next target
HashWalkEnd ==
    /\ pc = "hash" /\ walking /\ queue = <<>>
    /\ walking' = FALSE
    /\ ti' = ti + 1
    /\ UNCHANGED <<targets, queue, hashes, log_entries, caller, pc>>
    /\ UNCHANGED <<envVars, mainVars>>

\* return hashes
HashReturn ==
    /\ pc = "hash" /\ ~walking /\ ti > Len(targets)
    /\ pc' = AfterHash
    /\ events' = IF caller = "main" THEN Append(events, "hash_files") ELSE events
    /\ UNCHANGED <<hashVars, caller, envVars>>
    /\ UNCHANGED <<args, disk, zip_members, console, exitCode, csv_out, exc>>

----------------------------------------------------------------------------
(* write_csv *)

\* list(row.keys())
Keys(row) == [i \in 1..Len(row) |-> row[i][1]]

\* the value csv.DictWriter writes for a key a row lacks (restval, '')
RestVal == <<>>

\* rowdict.get(key, restval)
Get(row, key) ==
    IF \E i \in 1..Len(row) : row[i][1] = key
    THEN row[CHOOSE i \in 1..Len(row) : row[i][1] = key][2]
    ELSE RestVal

\* DictWriter._dict_to_list: rowdict.keys() - fieldnames, which raises
\* ValueError when not empty (extrasaction is 'raise' by default)
WrongFields(row, fieldnames) == Range(Keys(row)) \ Range(fieldnames)

DictToList(row, fieldnames) == [i \in 1..Len(fieldnames) |-> Get(row, fieldnames[i])]

SetMin(S) == CHOOSE x \in S : \A y \in S : x <= y

\* write_csv(rows, path): whether the file is created, the lines it holds
\* when the function is left, and the exception that leaves it
WriteCsvResult(rows) ==
    IF rows = <<>>
    THEN [created |-> FALSE, lines |-> <<>>, exc |-> "none"]
    ELSE LET fieldnames == Keys(rows[1])
             bad == {i \in 1..Len(rows) : WrongFields(rows[i], fieldnames) # {}}
             n == IF bad = {} THEN Len(rows) ELSE SetMin(bad) - 1
         IN  [created |-> TRUE,
              lines |-> <<fieldnames>>
                        \o [i \in 1..n |-> DictToList(rows[i], fieldnames)],
              exc |-> IF bad = {} THEN "none" ELSE "ValueError"]

\* write_csv(hashes, 'hashes.csv'); an exception is not caught by main
WriteCsv ==
    /\ pc = "write_csv"
    /\ LET r == WriteCsvResult(hashes)
       IN  /\ csv_out' = r.lines
           /\ disk' = IF r.created THEN disk \cup {"hashes.csv"} ELSE disk
           /\ exc' = r.exc
           /\ pc' = IF r.exc # "none" THEN (IF caller = "main" THEN "done" ELSE "raised")
                    ELSE IF caller = "main" THEN "write_log" ELSE "returned"
           /\ exitCode' = IF r.exc # "none" /\ caller = "main" THEN 1 ELSE exitCode
           /\ events' = IF caller = "main" /\ r.exc = "none"
                        THEN Append(events, "write_csv") ELSE events
    /\ UNCHANGED <<hashVars, caller, envVars, args, zip_members, console>>

----------------------------------------------------------------------------
(* The command line: parser.parse_args() *)

\* the words of the model's command lines that start with '-'
OptionWords == {"--targets", "--zip", "--s3-bucket", "--s3-prefix",
                "--help", "-h", "--modules"}

IsOption(w) == w[1] \in OptionWords

\* None, and the default '' of --s3-prefix: both are false as a condition
None == <<>>

Truthy(v) == v # <<>>

\* the namespace before any option is seen: the defaults of lines 148-151
ArgDefaults == [targets |-> <<>>, zip |-> FALSE, s3_bucket |-> None, s3_prefix |-> <<>>]

\* the words from position i up to the next option word
RECURSIVE ValuesFrom(_, _)
ValuesFrom(words, i) ==
    IF i > Len(words) \/ IsOption(words[i]) THEN <<>>
    ELSE <<words[i]>> \o ValuesFrom(words, i + 1)

RECURSIVE Parse(_, _, _, _, _)
\* argparse over words[i..]: ns is the namespace so far, seen whether
\* --targets was given, extras the words no argument takes.
\* Result: status "ok" (namespace returned), "help" (exit 0) or "error" (exit 2).
Parse(words, i, ns, seen, extras) ==
    IF i > Len(words)
    THEN IF ~seen \/ extras # <<>>
         THEN [status |-> "error", ns |-> ArgDefaults]
         ELSE [status |-> "ok", ns |-> ns]
    ELSE LET w == words[i][1]
             vals == ValuesFrom(words, i + 1)
         IN  IF ~IsOption(words[i])
             THEN Parse(words, i + 1, ns, seen, Append(extras, words[i]))
             ELSE IF w \in {"--help", "-h"}
             THEN [status |-> "help", ns |-> ArgDefaults]
             ELSE IF w = "--targets"
             THEN IF vals = <<>>
                  THEN [status |-> "error", ns |-> ArgDefaults]
                  ELSE Parse(words, i + 1 + Len(vals),
                             [ns EXCEPT !.targets = vals], TRUE, extras)
             ELSE IF w = "--zip"
             THEN Parse(words, i + 1, [ns EXCEPT !.zip = TRUE], seen, extras)
             ELSE IF w \in {"--s3-bucket", "--s3-prefix"}
             THEN IF vals = <<>>
                  THEN [status |-> "error", ns |-> ArgDefaults]
                  ELSE Parse(words, i + 2,
                             IF w = "--s3-bucket"
                             THEN [ns EXCEPT !.s3_bucket = vals[1]]
                             ELSE [ns EXCEPT !.s3_prefix = vals[1]],
                             seen, extras)
             ELSE Parse(words, i + 1, ns, seen, Append(extras, words[i]))

ParseArgs(words) == Parse(words, 1, ArgDefaults, FALSE, <<>>)

\* the exit status argparse ends the process with
ParseExit(status) == IF status = "help" THEN 0 ELSE 2

----------------------------------------------------------------------------
(* upload_to_s3 *)

\* what the client library does: "absent" is boto3 = None after the failed
\* import; "client_raises" is boto3.client('s3') raising; "uploaded" is
\* upload_file returning; any other value is the exception upload_file raises
S3Envs == {"absent", "client_raises", "uploaded", "NoCredentialsError",
           "EndpointConnectionError", "S3UploadFailedError", "ClientError"}

\* the exception classes that derive from botocore's BotoCoreError
BotoCoreErrors == {"BotoCoreError", "NoCredentialsError", "EndpointConnectionError"}

\* except (BotoCoreError, NoCredentialsError)
Caught(e) == e \in BotoCoreErrors \cup {"NoCredentialsError"}

\* UploadResult without the boto3 is None guard: None.client raises
UploadResultNoGuard(env) ==
    IF env \in {"absent", "client_raises"}
    THEN [printed |-> <<>>, raised |-> "AttributeError", sent |-> FALSE]
    ELSE IF env = "uploaded"
    THEN [printed |-> <<"Uploaded ">>, raised |-> "none", sent |-> TRUE]
    ELSE IF Caught(env)
    THEN [printed |-> <<"Failed to upload to S3: ", env>>, raised |-> "none", sent |-> TRUE]
    ELSE [printed |-> <<>>, raised |-> env, sent |-> TRUE]

\* upload_to_s3: the line it prints (or <<>>), the exception that leaves it
\* (or "none") and whether the transmission was started
UploadResult(env) ==
    IF env = "absent"
    THEN [printed |-> <<"boto3 is not installed; cannot upload to S3.">>,
          raised |-> "none", sent |-> FALSE]
    ELSE IF env = "client_raises"
    THEN [printed |-> <<>>, raised |-> "BotoCoreError", sent |-> FALSE]
    ELSE IF env = "uploaded"
    THEN [printed |-> <<"Uploaded ">>, raised |-> "none", sent |-> TRUE]
    ELSE IF Caught(env)
    THEN [printed |-> <<"Failed to upload to S3: ", env>>, raised |-> "none", sent |-> TRUE]
    ELSE [printed |-> <<>>, raised |-> env, sent |-> TRUE]

----------------------------------------------------------------------------
(* main *)

SessionDir == "output/ts"
ZipFile == "output/ts.zip"
SessionFiles == {"system_info.json", "processes.json", "connections.json",
                 "hashes.csv", "log.txt"}

\* the stages that gather data
CollectStages == {"collect_system_info", "collect_processes", "collect_connections",
                  "hash_files"}
\* the five writes of the session outputs
WriteStages == {"write_system_info", "write_processes", "write_connections",
                "write_csv", "write_log"}

\* the process ends: sys.exit of argparse, an uncaught exception, or the end of main
Exit(code) == pc' = "done" /\ exitCode' = code

\* args = parser.parse_args()
MainParseArgs ==
    /\ pc = "parse_args"
    /\ LET r == ParseArgs(argv)
       IN  IF r.status = "ok"
           THEN /\ args' = r.ns
                /\ pc' = "makedirs"
                /\ events' = Append(events, "parse_args")
                /\ UNCHANGED <<exitCode, console>>
           ELSE /\ Exit(ParseExit(r.status))
                /\ console' = IF r.status = "help"
                              THEN Append(console, <<"usage">>) ELSE console
                /\ UNCHANGED <<args, events>>
    /\ UNCHANGED <<hashVars, caller, envVars, disk, zip_members, csv_out, exc>>

\* MainMakeDirs with the error swallowed: the run goes on without the directory
MainMakeDirsIgnoresError ==
    /\ pc = "makedirs"
    /\ disk' = IF outputWritable THEN disk \cup {SessionDir} ELSE disk
    /\ pc' = "collect_system_info"
    /\ events' = Append(events, "makedirs")
    /\ UNCHANGED <<exitCode, exc>>
    /\ UNCHANGED <<hashVars, caller, envVars, args, zip_members, console, csv_out>>

\* os.makedirs(out_base, exist_ok=True); an OSError is not caught
MainMakeDirs ==
    /\ pc = "makedirs"
    /\ IF outputWritable
       THEN /\ disk' = disk \cup {SessionDir}
            /\ pc' = "collect_system_info"
            /\ events' = Append(events, "makedirs")
            /\ UNCHANGED <<exitCode, exc>>
       ELSE /\ exc' = "PermissionError"
            /\ Exit(1)
            /\ UNCHANGED <<disk, events>>
    /\ UNCHANGED <<hashVars, caller, envVars, args, zip_members, console, csv_out>>

\* system_info = collect_system_info(), and likewise the two other collectors
MainCollect(stage, next) ==
    /\ pc = stage
    /\ pc' = next
    /\ events' = Append(events, stage)
    /\ UNCHANGED <<hashVars, caller, envVars>>
    /\ UNCHANGED <<args, disk, zip_members, console, exitCode, csv_out, exc>>

MainCollectSystemInfo == MainCollect("collect_system_info", "collect_processes")
MainCollectProcesses == MainCollect("collect_processes", "collect_connections")
MainCollectConnections == MainCollect("collect_connections", "call_hash_files")

\* log_entries = []; hashes = hash_files(args.targets, log_entries)
MainCallHashFiles ==
    /\ pc = "call_hash_files"
    /\ targets' = args.targets
    /\ ti' = 1 /\ walking' = FALSE /\ queue' = <<>>
    /\ hashes' = <<>> /\ log_entries' = <<>>
    /\ pc' = "hash"
    /\ UNCHANGED <<caller, envVars, mainVars>>

\* write_json(...) for one of the three JSON outputs
MainWriteJson(stage, file, next) ==
    /\ pc = stage
    /\ disk' = disk \cup {file}
    /\ pc' = next
    /\ events' = Append(events, stage)
    /\ UNCHANGED <<hashVars, caller, envVars>>
    /\ UNCHANGED <<args, zip_members, console, exitCode, csv_out, exc>>

MainWriteSystemInfo == MainWriteJson("write_system_info", "system_info.json", "write_processes")
MainWriteProcesses == MainWriteJson("write_processes", "processes.json", "write_connections")
MainWriteConnections == MainWriteJson("write_connections", "connections.json", "write_csv")

\* log.txt, then print(f"Data written to {out_base}")
MainWriteLog ==
    /\ pc = "write_log"
    /\ disk' = disk \cup {"log.txt"}
    /\ console' = Append(console, <<"Data written to ", SessionDir>>)
    /\ events' = Append(events, "write_log")
    /\ pc' = "archive"
    /\ UNCHANGED <<hashVars, caller, envVars, args, zip_members, exitCode, csv_out, exc>>

\* WantsArchive without the bucket: if args.zip
WantsArchiveZipOnly(a) == a.zip

\* if args.zip or args.s3_bucket
WantsArchive(a) == a.zip \/ Truthy(a.s3_bucket)

\* if args.s3_bucket
WantsUpload(a) == Truthy(a.s3_bucket)

\* compress_directory(out_base, zip_path) and its print
MainCompress ==
    /\ pc = "archive"
    /\ WantsArchive(args)
    /\ zip_members' = disk \cap SessionFiles
    /\ disk' = disk \cup {ZipFile}
    /\ console' = Append(console, <<"Created zip archive ", ZipFile>>)
    /\ events' = Append(events, "compress_directory")
    /\ IF WantsUpload(args)
       THEN pc' = "upload" /\ UNCHANGED exitCode
       ELSE Exit(0)
    /\ UNCHANGED <<hashVars, caller, envVars, args, csv_out, exc>>

\* neither --zip nor --s3-bucket: main ends
MainNoArchive ==
    /\ pc = "archive"
    /\ ~WantsArchive(args)
    /\ Exit(0)
    /\ UNCHANGED <<hashVars, caller, envVars>>
    /\ UNCHANGED <<args, disk, zip_members, console, events, csv_out, exc>>

\* upload_to_s3(zip_path, args.s3_bucket, ...); main catches nothing
MainUpload ==
    /\ pc = "upload"
    /\ LET r == UploadResult(s3Env)
       IN  /\ console' = IF r.printed = <<>> THEN console ELSE Append(console, r.printed)
           /\ exc' = r.raised
           /\ Exit(IF r.raised = "none" THEN 0 ELSE 1)
    /\ events' = Append(events, "upload_to_s3")
    /\ UNCHANGED <<hashVars, caller, envVars, args, disk, zip_members, csv_out>>

----------------------------------------------------------------------------
(* Specifications *)

\* the two orders in which a directory's entries are listed
ScanOrders == { <<"a", "b", "c">>, <<"c", "b", "a">> }

\* what hash_files may be called with
TargetPaths == { <<"t">>, <<"t", "a">>, <<"u">> }

RECURSIVE SeqsUpTo(_, _)
\* the sequences over S of length at most n
SeqsUpTo(S, n) ==
    IF n = 0 THEN {<<>>}
    ELSE LET shorter == SeqsUpTo(S, n - 1)
         IN  shorter \cup {Append(s, x) : s \in shorter, x \in S}

\* the state of everything the run of one function leaves alone
Idle ==
    /\ exc = "none" /\ csv_out = <<>> /\ argv = <<>> /\ args = ArgDefaults
    /\ disk = {} /\ zip_members = {} /\ console = <<>> /\ events = <<>>
    /\ exitCode = -1 /\ outputWritable = TRUE /\ s3Env = "uploaded"

\* hash_files called on its own with an empty log sink
InitHash ==
    /\ fs \in FileSystems
    /\ scandirOrder \in ScanOrders
    /\ targets \in SeqsUpTo(TargetPaths, MaxTargets)
    /\ ti = 1 /\ walking = FALSE /\ queue = <<>>
    /\ hashes = <<>> /\ log_entries = <<>>
    /\ caller = "direct" /\ pc = "hash"
    /\ Idle

NextHash ==
    \/ HashTargetMissing
    \/ HashTargetWalk
    \/ HashFileOk
    \/ HashFileFail
    \/ HashWalkEnd
    \/ HashReturn

SpecHash == InitHash /\ [][NextHash]_vars

\* the dicts write_csv is called with: the shape hash_files produces, one
\* with an extra key, one that lacks a key, one with the keys in another order
Rows == { << <<"file", <<"f1">> >>, <<"sha256", <<"d1">> >> >>,
          << <<"file", <<"f2">> >>, <<"sha256", <<"d2">> >>, <<"size", <<"9">> >> >>,
          << <<"file", <<"f3">> >> >>,
          << <<"sha256", <<"d4">> >>, <<"file", <<"f4">> >> >> }

\* write_csv called on its own
InitCsv ==
    /\ hashes \in SeqsUpTo(Rows, MaxRows)
    /\ fs = [p \in Paths |-> Missing]
    /\ scandirOrder = <<"a", "b", "c">>
    /\ targets = <<>> /\ ti = 1 /\ walking = FALSE /\ queue = <<>>
    /\ log_entries = <<>>
    /\ caller = "direct" /\ pc = "write_csv"
    /\ Idle

NextCsv == WriteCsv

SpecCsv == InitCsv /\ [][NextCsv]_vars

\* the command lines main is started with
W(s) == <<s>>
Argvs == {
    << W("--targets"), <<"t">> >>,
    << W("--targets"), <<"t">>, <<"u">> >>,
    << W("--targets"), <<"t">>, W("--zip") >>,
    << W("--zip"), W("--targets"), <<"u">> >>,
    << W("--targets"), <<"t">>, W("--s3-bucket"), W("my-bucket") >>,
    << W("--targets"), <<"t", "a">>, W("--zip"), W("--s3-bucket"), W("my-bucket"),
       W("--s3-prefix"), W("incidents") >>,
    << W("--modules"), W("processes") >>,
    << W("--targets"), <<"t">>, W("--modules"), W("processes") >>,
    << W("--help") >>,
    << W("--targets") >>,
    << >> }

\* the file systems main runs on: one level below the targets
MainFileSystems ==
    {f \in FileSystems :
        /\ f[<<"t", "b">>] = Missing
        /\ f[<<"t", "a", "c">>] = Missing
        /\ \A p \in Paths : f[p].kind = "file" => Len(f[p].content) \in {0, MaxLen}}

Init ==
    /\ argv \in Argvs
    /\ fs \in MainFileSystems
    /\ scandirOrder = <<"a", "b", "c">>
    /\ outputWritable \in BOOLEAN
    /\ s3Env \in S3Envs
    /\ targets = <<>> /\ ti = 1 /\ walking = FALSE /\ queue = <<>>
    /\ hashes = <<>> /\ log_entries = <<>>
    /\ caller = "main" /\ pc = "parse_args"
    /\ exc = "none" /\ csv_out = <<>> /\ args = ArgDefaults
    /\ disk = {} /\ zip_members = {} /\ console = <<>> /\ events = <<>>
    /\ exitCode = -1

Next ==
    \/ MainParseArgs
    \/ MainMakeDirs
    \/ MainCollectSystemInfo
    \/ MainCollectProcesses
    \/ MainCollectConnections
    \/ MainCallHashFiles
    \/ HashTargetMissing
    \/ HashTargetWalk
    \/ HashFileOk
    \/ HashFileFail
    \/ HashWalkEnd
    \/ HashReturn
    \/ MainWriteSystemInfo
    \/ MainWriteProcesses
    \/ MainWriteConnections
    \/ WriteCsv
    \/ MainWriteLog
    \/ MainCompress
    \/ MainNoArchive
    \/ MainUpload

Spec == Init /\ [][Next]_vars

----------------------------------------------------------------------------
(* Properties of hash_files, checked under SpecHash *)

\* p lies strictly below t
IsUnder(p, t) == Len(p) > Len(t) /\ SubSeq(p, 1, Len(t)) = t

\* the files the traversal of target t reaches: files below t all of whose
\* directories from t down can be listed
Reached(t) ==
    {p \in Paths :
        /\ IsUnder(p, t)
        /\ fs[p].kind = "file"
        /\ \A k \in Len(t)..(Len(p) - 1) :
              LET d == fs[SubSeq(p, 1, k)] IN d.kind = "dir" /\ d.err = "none"}

\* how many targets, counted by occurrence, reach p
Occurrences(p) == Cardinality({i \in 1..Len(targets) : p \in Reached(targets[i])})

\* how many targets, counted by occurrence, do not exist
MissingTargets == {i \in 1..Len(targets) : ~Exists(targets[i])}

RecordsOf(p) == {j \in 1..Len(hashes) : hashes[j][1][2] = p}

FailuresOf(p) ==
    {j \in 1..Len(log_entries) :
        /\ Len(log_entries[j]) = 4
        /\ log_entries[j][1] = "Failed to hash "
        /\ log_entries[j][2] = p}

Fails(p) == fs[p].kind = "file" /\ fs[p].err # "none"

Readable(p) == fs[p].kind = "file" /\ fs[p].err = "none"

\* C1: hash_files returns without raising whatever files fail; a failing
\* file adds one log entry (its path and the error) per time the traversal
\* reaches it and no record, the log holds nothing else but the missing
\* targets, and every readable file the traversal reaches, in the same
\* target and in later ones, is recorded once per time it is reached.
C1_FailuresIsolated ==
    pc = "returned" =>
        /\ exc = "none"
        /\ \A p \in Paths :
              Fails(p) =>
                 /\ Cardinality(FailuresOf(p)) = Occurrences(p)
                 /\ RecordsOf(p) = {}
                 /\ \A j \in FailuresOf(p) : log_entries[j] = FailEntry(p, fs[p].err)
        /\ \A p \in Paths :
              Readable(p) =>
                 /\ Cardinality(RecordsOf(p)) = Occurrences(p)
                 /\ FailuresOf(p) = {}
        /\ Len(log_entries) =
              Cardinality(MissingTargets)
              + Cardinality({<<i, p>> \in (1..Len(targets)) \X Paths :
                                Fails(p) /\ p \in Reached(targets[i])})

\* a file fails in the first target and a readable file that only the
\* second target reaches is recorded after it
C1_Witness ==
    /\ pc = "returned"
    /\ Len(targets) = 2
    /\ \E p, q \in Paths :
          /\ Fails(p) /\ p \in Reached(targets[1])
          /\ Readable(q) /\ q \in Reached(targets[2]) /\ q \notin Reached(targets[1])
          /\ FailuresOf(p) # {}
          /\ RecordsOf(q) # {}

\* C2: when no target exists, hash_files returns no record and the log
\* holds one entry per target, in input order, each with that target's
\* path; with no target at all both stay empty.
C2_MissingTargetsLogged ==
    (pc = "returned" /\ \A i \in 1..Len(targets) : ~Exists(targets[i])) =>
        /\ hashes = <<>>
        /\ Len(log_entries) = Len(targets)
        /\ \A i \in 1..Len(targets) :
              /\ log_entries[i][1] = "Target path not found: "
              /\ log_entries[i][2] = targets[i]
        /\ targets = <<>> => log_entries = <<>>

\* two different targets, neither of which exists
C2_Witness ==
    /\ pc = "returned"
    /\ Len(targets) = 2 /\ targets[1] # targets[2]
    /\ \A i \in 1..Len(targets) : ~Exists(targets[i])
    /\ Len(log_entries) = 2

\* the regular files of the tree below root
FilesBelow(root) == {p \in Paths : IsUnder(p, root) /\ fs[p].kind = "file"}

\* nothing in the tree at or below root raises an error
NoAccessErrors(root) ==
    \A p \in Paths : (p = root \/ IsUnder(p, root)) => fs[p].err = "none"

\* C3: for a directory tree without access errors, hash_files called with
\* the root as its only target returns one record per regular file of the
\* tree, N in all, each with the SHA-256 of the file's contents, and logs
\* nothing.
C3_OneRecordPerFile ==
    (/\ pc = "returned"
     /\ Len(targets) = 1
     /\ fs[targets[1]].kind = "dir"
     /\ NoAccessErrors(targets[1])) =>
        /\ Len(hashes) = Cardinality(FilesBelow(targets[1]))
        /\ \A p \in FilesBelow(targets[1]) :
              \E j \in 1..Len(hashes) :
                 hashes[j] = HashRecord(p, Sha256Hex(fs[p].content))
        /\ log_entries = <<>>

\* two files at two depths, one empty and one longer than a chunk
C3_Witness ==
    /\ pc = "returned"
    /\ targets = << <<"t">> >>
    /\ NoAccessErrors(<<"t">>)
    /\ Cardinality(FilesBelow(<<"t">>)) = 2
    /\ Len(fs[<<"t", "a", "c">>].content) = MaxLen
    /\ Len(fs[<<"t", "b">>].content) = 0
    /\ Len(hashes) = 2

\* C4: a target that is a readable regular file is hashed directly: the
\* result holds a record for that path with the file's SHA-256 digest, and
\* it is the only record when the file is the only target.
C4_FileTargetHashed ==
    pc = "returned" =>
        \A i \in 1..Len(targets) :
            Readable(targets[i]) =>
               /\ \E j \in 1..Len(hashes) :
                     hashes[j] = HashRecord(targets[i], Sha256Hex(fs[targets[i]].content))
               /\ Len(targets) = 1 => Len(hashes) = 1

----------------------------------------------------------------------------
(* Properties of write_csv, checked under SpecCsv *)

\* C7: with records of differing key sets write_csv raises nothing, the
\* header is the first record's keys and one row per record follows in
\* input order, keys the header lacks being ignored; with no record it
\* writes nothing and creates no file.
C7_ExtraKeysIgnored ==
    pc \in {"returned", "raised"} =>
        IF hashes = <<>>
        THEN csv_out = <<>> /\ "hashes.csv" \notin disk
        ELSE /\ exc = "none"
             /\ "hashes.csv" \in disk
             /\ Len(csv_out) = Len(hashes) + 1
             /\ csv_out[1] = Keys(hashes[1])
             /\ \A i \in 1..Len(hashes) :
                   \A k \in 1..Len(csv_out[1]) :
                      csv_out[i + 1][k] = Get(hashes[i], csv_out[1][k])

----------------------------------------------------------------------------
(* Properties of main, checked under Spec *)

Did(stage) == \E i \in 1..Len(events) : events[i] = stage

\* the position of a stage that ran
Pos(stage) == CHOOSE i \in 1..Len(events) : events[i] = stage

Before(s1, s2) == Did(s1) /\ Did(s2) /\ Pos(s1) < Pos(s2)

Printed(line) == \E i \in 1..Len(console) : console[i] = line

\* C5: when an upload is requested and the capability is missing (boto3
\* absent, or no credentials), upload_to_s3 reports it and returns without
\* raising: the run ends with exit status 0 and the archive is on disk.
C5_CapabilityMissingNotFatal ==
    (/\ pc = "done"
     /\ Did("upload_to_s3")
     /\ s3Env \in {"absent", "NoCredentialsError"}) =>
        /\ exc = "none"
        /\ exitCode = 0
        /\ ZipFile \in disk
        /\ IF s3Env = "absent"
           THEN Printed(<<"boto3 is not installed; cannot upload to S3.">>)
           ELSE Printed(<<"Failed to upload to S3: ", "NoCredentialsError">>)

\* a bucket without --zip, and no boto3
C5_Witness ==
    /\ pc = "done"
    /\ Did("upload_to_s3")
    /\ s3Env = "absent"
    /\ ~args.zip /\ args.s3_bucket = <<"my-bucket">>
    /\ exitCode = 0

\* C6: whatever the client raises while it is created or while it sends
\* the file, the failure is reported, upload_to_s3 returns, main ends with
\* exit status 0 and the session directory and the archive stay on disk.
C6_TransmissionFailureNotFatal ==
    (/\ pc = "done"
     /\ Did("upload_to_s3")
     /\ s3Env \notin {"absent", "uploaded"}) =>
        /\ exc = "none"
        /\ exitCode = 0
        /\ SessionDir \in disk /\ ZipFile \in disk
        /\ \E i \in 1..Len(console) : console[i][1] = "Failed to upload to S3: "

\* C8: the command line --modules processes is accepted and the process
\* exits with status 0.
C8_ModulesFlagAccepted ==
    (pc = "done" /\ argv = << <<"--modules">>, <<"processes">> >>) => exitCode = 0

C10_NoSessionDirIsFatal ==
    /\ (pc = "done" /\ Did("parse_args") /\ ~outputWritable) =>
          /\ exitCode # 0
          /\ \A c \in CollectStages : ~Did(c)
          /\ hashes = <<>> /\ log_entries = <<>>
          /\ disk = {}
    /\ \A c \in CollectStages : Did(c) => Before("makedirs", c)
    /\ pc \in CollectStages \cup {"call_hash_files", "hash"} =>
          Did("makedirs") /\ SessionDir \in disk

\* os.makedirs failed and the process ended with status 1
C10_Witness ==
    /\ pc = "done"
    /\ Did("parse_args") /\ ~outputWritable
    /\ exc = "PermissionError"
    /\ exitCode = 1

====
